---- MODULE Spec2Model ----
(***************************************************************************)
(* HighPerformanceProxy (proxy.py): the accept loop, the worker pool, the  *)
(* connection handler with its three unsynchronised counters, the HTTP     *)
(* forward path, the CONNECT tunnel path and the select() relay loop.      *)
(*                                                                         *)
(* Bytes are modelled as lexical tokens: "CONNECT", "GET", "X" (a further  *)
(* letter), "SP" (a space), "CRLF", "HTTP" (the text http://), "h" (host   *)
(* name text), "COLON", "443"/"80" (digits), "p" (non-digit text),         *)
(* "SLASH", "V" (HTTP/1.1), "HOST" (the header name Host in any case),     *)
(* "B" (body text), "BAD" (a byte that is not valid UTF-8).                *)
(***************************************************************************)
EXTENDS Integers, Sequences, FiniteSets, TLC

\* Number of client connections that arrive in the concurrent scenario.
MaxConns == 2
\* ThreadPoolExecutor(max_workers=...), scaled down.
max_workers == 2
\* recv(self.buffer_size), scaled down to tokens.
buffer_size == 2
\* Longest stream a peer sends during the relay.
MaxData == 2
\* The same, in the runs in which stop() is called.
StopData == 1
\* The same, in the runs that look at the relay alone.
RelayData == 3

Conns == 1..MaxConns

\* The bytes a peer sends during the relay, in order.
UpData == <<"u1", "u2", "u3", "u4", "u5", "u6">>
ClData == <<"c1", "c2", "c3", "c4", "c5", "c6">>
UpBytes(n) == SubSeq(UpData, 1, n)
ClBytes(n) == SubSeq(ClData, 1, n)

Range(s) == {s[i] : i \in 1..Len(s)}

Min(a, b) == IF a < b THEN a ELSE b

(***************************************************************************)
(* String handling of handle_client, handle_http and handle_https.         *)
(***************************************************************************)

\* bytes.decode('utf-8', errors='ignore'): invalid bytes are dropped.
decode(bytes) == SelectSeq(bytes, LAMBDA t : t # "BAD")

\* str.encode('utf-8'): every character of a str has its own encoding.
encode(str) == str

\* str.split(sep): the pieces between the separators, empty pieces kept.
RECURSIVE split(_, _)
split(s, sep) ==
  IF s = <<>> THEN << <<>> >>
  ELSE LET rest == split(Tail(s), sep)
       IN  IF Head(s) = sep
           THEN << <<>> >> \o rest
           ELSE << <<Head(s)>> \o rest[1] >> \o Tail(rest)

\* str.startswith(prefix) for a one-token prefix.
startswith(s, tok) == Len(s) >= 1 /\ s[1] = tok

\* request.split('\r\n')[0]
first_line(request) == split(request, "CRLF")[1]

\* Index of the first token of s that is in toks, Len(s)+1 when there is none.
RECURSIVE FirstIn(_, _, _)
FirstIn(s, toks, i) ==
  IF i > Len(s) THEN i
  ELSE IF s[i] \in toks THEN i ELSE FirstIn(s, toks, i + 1)

\* The ':' characters of a token: "http://" holds one.
Colons(s) == Cardinality({i \in 1..Len(s) : s[i] \in {"COLON", "HTTP"}})

\* int(port) succeeds on a non-empty run of digits.
IsInt(s) == Len(s) >= 1 /\ \A i \in 1..Len(s) : s[i] \in {"443", "80"}

\* host, port = url.split(':'); port = int(port)
\* ok is FALSE when the unpacking or int() raises ValueError.
HttpsTarget(url) ==
  LET i == FirstIn(url, {"COLON"}, 1)
  IN  IF Colons(url) = 1 /\ i <= Len(url) /\ IsInt(SubSeq(url, i + 1, Len(url)))
      THEN [ok |-> TRUE, host |-> SubSeq(url, 1, i - 1),
            port |-> SubSeq(url, i + 1, Len(url))]
      ELSE [ok |-> FALSE, host |-> <<>>, port |-> <<>>]

\* The lines of the request that start with host: in any letter case.
host_line(request) ==
  SelectSeq(split(request, "CRLF"),
            LAMBDA l : Len(l) >= 2 /\ l[1] = "HOST" /\ l[2] = "COLON")

\* Lines 105-116: the upstream of a forwarded request, from an absolute
\* http:// URL (urlparse: hostname, port or 80) or else from the Host header.
\* ok is FALSE when no host is found or urlparse's port raises ValueError.
HttpTarget(request, url) ==
  IF startswith(url, "HTTP")
  THEN LET rest   == Tail(url)
           netloc == SubSeq(rest, 1, FirstIn(rest, {"SLASH"}, 1) - 1)
           i      == FirstIn(netloc, {"COLON"}, 1)
           port   == SubSeq(netloc, i + 1, Len(netloc))
       IN  IF port = <<>> \/ IsInt(port)
           THEN [ok |-> TRUE, host |-> SubSeq(netloc, 1, i - 1),
                 port |-> IF port = <<>> THEN <<"80">> ELSE port]
           ELSE [ok |-> FALSE, host |-> <<>>, port |-> <<>>]
  ELSE IF host_line(request) # <<>>
       THEN [ok |-> TRUE, host |-> Tail(Tail(host_line(request)[1])),
             port |-> <<"80">>]
       ELSE [ok |-> FALSE, host |-> <<>>, port |-> <<>>]

(***************************************************************************)
(* The first reads a client can produce.                                   *)
(***************************************************************************)

GetAbs      == <<"GET", "SP", "HTTP", "h", "SLASH", "SP", "V", "CRLF", "CRLF">>
GetAbsPort  == <<"GET", "SP", "HTTP", "h", "COLON", "80", "SLASH", "CRLF", "CRLF">>
GetAbsBody  == <<"GET", "SP", "HTTP", "h", "SLASH", "CRLF", "CRLF", "B", "BAD">>
GetHost     == <<"GET", "SP", "SLASH", "SP", "V", "CRLF", "HOST", "COLON", "h", "CRLF", "CRLF">>
GetNoHost   == <<"GET", "SP", "SLASH", "SP", "V", "CRLF", "CRLF">>
Connect     == <<"CONNECT", "SP", "h", "COLON", "443", "SP", "V", "CRLF", "CRLF">>
ConnectBad  == <<"CONNECT", "SP", "h", "COLON", "p", "SP", "V", "CRLF", "CRLF">>
ConnectNoPt == <<"CONNECT", "SP", "h", "SP", "V", "CRLF", "CRLF">>
ConnectX    == <<"CONNECT", "X", "SP", "h", "COLON", "443", "CRLF", "CRLF">>
NoTarget    == <<"GET", "CRLF", "CRLF">>
NoTargetBad == <<"GET", "BAD", "CRLF">>
AllBad      == <<"BAD", "BAD">>

Requests ==
  {GetAbs, GetAbsPort, GetAbsBody, GetHost, GetNoHost, Connect, ConnectBad,
   ConnectNoPt, ConnectX, NoTarget, NoTargetBad, AllBad}

\* What client_socket.recv returns first: bytes (none when the client closed
\* at once) or a socket error / timeout.
FirstReads ==
  {[err |-> TRUE, bytes |-> <<>>]}
    \cup {[err |-> FALSE, bytes |-> b] : b \in Requests \cup {<<>>}}

\* The first reads of the runs that look at the relay: a client that closed
\* at once, one forwarded request and one tunnel request.
RelayReads ==
  {[err |-> FALSE, bytes |-> b] : b \in {<<>>, GetAbs, Connect}}

\* The first reads of the concurrent scenario.
ConcReads ==
  {[err |-> FALSE, bytes |-> b] : b \in {<<>>, NoTarget}}

(***************************************************************************)
(* State.                                                                  *)
(***************************************************************************)

VARIABLES
  running,     \* self.running
  serverSock,  \* self.server_socket: "none", "listening" or "closed"
  shutdown,    \* the executor refuses new work (after executor.shutdown)
  mainpc,      \* the thread in start(): "idle", "loop", "accept", "submit", "exited"
  cur,         \* the connection accept() returned last
  stoppc,      \* the thread in stop(): "idle", "close", "shutdown", "join", "stopped"
  nconns,      \* how many clients connect in this run
  dataBound,   \* the longest stream a relay peer sends in this run
  rd,          \* what each client's first recv returns
  stats,       \* self.stats
  pc,          \* where each connection's handler is
  tmp,         \* the counter value a handler loaded for its += or -=
  request,     \* the decoded request of each handler
  clientSock,  \* each client socket: "none", "open" or "closed"
  clientOK,    \* FALSE once a send on the client socket has failed: the peer
               \* has reset the connection, and every later send fails too
  upSock,      \* each server_socket: "none", "created", "connected", "closed"
  clientOut,   \* the bytes each client socket accepted from the proxy
  upOut,       \* the bytes each upstream socket accepted from the proxy
  uLen,        \* how many bytes the upstream sends before it closes
  cLen,        \* how many bytes the client sends after its request
  uPos,        \* how many of the upstream's bytes the relay has read
  cPos,        \* how many of the client's bytes the relay has read
  ready,       \* the rest of ready_sockets in the relay's for loop
  hist         \* per connection: what its handler has done so far

lifeVars  == <<running, serverSock, shutdown, mainpc, cur, stoppc>>
scenVars  == <<nconns, dataBound, rd>>
outVars   == <<clientOut, upOut>>
relayVars == <<uLen, cLen, uPos, cPos, ready>>

vars == <<running, serverSock, shutdown, mainpc, cur, stoppc, nconns, dataBound,
          rd, stats, pc, tmp, request, clientSock, clientOK, upSock, clientOut,
          upOut, uLen, cLen, uPos, cPos, ready, hist>>

NoHist ==
  [connects |-> 0, connectResult |-> "none", errs |-> 0, tots |-> 0, decs |-> 0,
   relayEnd |-> "none", offered |-> <<>>, short |-> FALSE,
   fwd |-> <<>>, fwdDone |-> FALSE, fwdWhole |-> FALSE]

\* The state after __init__ (lines 28-42), for a run in which n clients
\* connect, their first reads are drawn from reads and relay peers send at
\* most d bytes.
InitWith(n, reads, d) ==
  /\ running = FALSE
  /\ serverSock = "none"
  /\ shutdown = FALSE
  /\ mainpc = "idle"
  /\ cur = 0
  /\ stoppc = "idle"
  /\ nconns = n
  /\ dataBound = d
  /\ rd \in [Conns -> reads]
  /\ \A c \in Conns : c > n => rd[c] = [err |-> FALSE, bytes |-> <<>>]
  /\ stats = [total_requests |-> 0, active_connections |-> 0, errors |-> 0]
  /\ pc = [c \in Conns |-> "none"]
  /\ tmp = [c \in Conns |-> 0]
  /\ request = [c \in Conns |-> <<>>]
  /\ clientSock = [c \in Conns |-> "none"]
  /\ clientOK = [c \in Conns |-> TRUE]
  /\ upSock = [c \in Conns |-> "none"]
  /\ clientOut = [c \in Conns |-> <<>>]
  /\ upOut = [c \in Conns |-> <<>>]
  /\ uLen = [c \in Conns |-> 0]
  /\ cLen = [c \in Conns |-> 0]
  /\ uPos = [c \in Conns |-> 0]
  /\ cPos = [c \in Conns |-> 0]
  /\ ready = [c \in Conns |-> <<>>]
  /\ hist = [c \in Conns |-> NoHist]

\* One client, any first read, relay streams up to MaxData bytes.
Init == InitWith(1, FirstReads, MaxData)

\* MaxConns clients handled concurrently.
InitConc == InitWith(MaxConns, ConcReads, 0)

(***************************************************************************)
(* start(), stop() and the worker pool.                                    *)
(***************************************************************************)

\* Lines 46-56: bind, listen, running = True.  start() may be called again on
\* the same object once an earlier call has returned: line 51 sets the flag
\* whatever its value was.
Start ==
  /\ mainpc \in {"idle", "exited"}
  /\ serverSock' = "listening"
  /\ running' = TRUE
  /\ mainpc' = "loop"
  /\ UNCHANGED <<shutdown, cur, stoppc, scenVars, stats, pc, tmp, request,
                 clientSock, clientOK, upSock, outVars, relayVars, hist>>

\* Line 58: while self.running
LoopCheck ==
  /\ mainpc = "loop"
  /\ mainpc' = IF running THEN "accept" ELSE "exited"
  /\ UNCHANGED <<running, serverSock, shutdown, cur, stoppc, scenVars, stats, pc,
                 tmp, request, clientSock, clientOK, upSock, outVars, relayVars,
                 hist>>

\* The clients that have not connected yet.
Waiting == {c \in 1..nconns : clientSock[c] = "none"}

\* Line 60: accept() returns the next client's socket.
Accept(c) ==
  /\ mainpc = "accept"
  /\ serverSock = "listening"
  /\ c \in Waiting
  /\ \A d \in Waiting : c <= d
  /\ clientSock' = [clientSock EXCEPT ![c] = "open"]
  /\ cur' = c
  /\ mainpc' = "submit"
  /\ UNCHANGED <<running, serverSock, shutdown, stoppc, scenVars, stats, pc, tmp,
                 request, clientOK, upSock, outVars, relayVars, hist>>

\* Lines 60, 63-65: accept() raises on the closed listening socket.
AcceptError ==
  /\ mainpc = "accept"
  /\ serverSock = "closed"
  /\ mainpc' = "loop"
  /\ UNCHANGED <<running, serverSock, shutdown, cur, stoppc, scenVars, stats, pc,
                 tmp, request, clientSock, clientOK, upSock, outVars, relayVars,
                 hist>>

\* Lines 62-65: executor.submit queues the handler, or raises RuntimeError
\* after executor.shutdown; the except clause then drops the connection.
Submit ==
  /\ mainpc = "submit"
  /\ pc' = [pc EXCEPT ![cur] = IF shutdown THEN "none" ELSE "queued"]
  /\ mainpc' = "loop"
  /\ UNCHANGED <<running, serverSock, shutdown, cur, stoppc, scenVars, stats, tmp,
                 request, clientSock, clientOK, upSock, outVars, relayVars, hist>>

\* Line 183: self.running = False.  stop() may be called again once an
\* earlier call has returned.
StopFlag ==
  /\ stoppc \in {"idle", "stopped"}
  /\ mainpc # "idle"
  /\ running' = FALSE
  /\ stoppc' = "close"
  /\ UNCHANGED <<serverSock, shutdown, mainpc, cur, scenVars, stats, pc, tmp,
                 request, clientSock, clientOK, upSock, outVars, relayVars, hist>>

\* Lines 184-187: self.server_socket.close()
StopClose ==
  /\ stoppc = "close"
  /\ serverSock' = "closed"
  /\ stoppc' = "shutdown"
  /\ UNCHANGED <<running, shutdown, mainpc, cur, scenVars, stats, pc, tmp, request,
                 clientSock, clientOK, upSock, outVars, relayVars, hist>>

\* Line 188: executor.shutdown refuses further submits ...
StopShutdown ==
  /\ stoppc = "shutdown"
  /\ shutdown' = TRUE
  /\ stoppc' = "join"
  /\ UNCHANGED <<running, serverSock, mainpc, cur, scenVars, stats, pc, tmp,
                 request, clientSock, clientOK, upSock, outVars, relayVars, hist>>

\* Line 188, wait=True: no handler is queued or running any more.
DrainedNoWait == TRUE
Drained == \A c \in Conns : pc[c] \in {"none", "done"}

\* ... and with wait=True returns once every submitted handler has finished.
StopJoin ==
  /\ stoppc = "join"
  /\ Drained
  /\ stoppc' = "stopped"
  /\ UNCHANGED <<running, serverSock, shutdown, mainpc, cur, scenVars, stats, pc,
                 tmp, request, clientSock, clientOK, upSock, outVars, relayVars,
                 hist>>

\* The handlers a worker thread is running.
Busy == {c \in Conns : pc[c] \notin {"none", "queued", "done"}}

\* A free worker of the pool takes the oldest queued handler (line 35: at most
\* max_workers threads; the work queue is first in, first out).
StartHandler(c) ==
  /\ pc[c] = "queued"
  /\ \A d \in Conns : pc[d] = "queued" => c <= d
  /\ Cardinality(Busy) < max_workers
  /\ pc' = [pc EXCEPT ![c] = "inc_read"]
  /\ UNCHANGED <<lifeVars, scenVars, stats, tmp, request, clientSock, clientOK,
                 upSock, outVars, relayVars, hist>>

(***************************************************************************)
(* handle_client                                                           *)
(***************************************************************************)

Goto(c, l) == pc' = [pc EXCEPT ![c] = l]

\* Where a handler leaves the try block of handle_client by return or by
\* falling off its end: the finally clause (lines 96-101).
FinallyEarly(from) == IF from = "empty" THEN "done" ELSE "close"
Finally(from) == "close"

\* Where a handler goes when an exception reaches line 93: errors += 1.
ExceptSwallowed == "close"
Except == "err_read"

\* Line 76, first half: load stats['active_connections'].
IncRead(c) ==
  /\ pc[c] = "inc_read"
  /\ tmp' = [tmp EXCEPT ![c] = stats.active_connections]
  /\ Goto(c, "inc_write")
  /\ UNCHANGED <<lifeVars, scenVars, stats, request, clientSock, clientOK, upSock,
                 outVars, relayVars, hist>>

\* Line 76, second half: store the loaded value plus one.
IncWrite(c) ==
  /\ pc[c] = "inc_write"
  /\ stats' = [stats EXCEPT !.active_connections = tmp[c] + 1]
  /\ Goto(c, "recv")
  /\ UNCHANGED <<lifeVars, scenVars, tmp, request, clientSock, clientOK, upSock,
                 outVars, relayVars, hist>>

\* Lines 77-81: the first recv, decoded; an empty request returns.
Recv(c) ==
  /\ pc[c] = "recv"
  /\ IF rd[c].err
     THEN /\ Goto(c, Except)
          /\ UNCHANGED request
     ELSE /\ request' = [request EXCEPT ![c] = decode(rd[c].bytes)]
          /\ Goto(c, IF decode(rd[c].bytes) = <<>> THEN Finally("empty")
                     ELSE "tot_read")
  /\ UNCHANGED <<lifeVars, scenVars, stats, tmp, clientSock, clientOK, upSock,
                 outVars, relayVars, hist>>

\* Line 83, first half: load stats['total_requests'].
TotRead(c) ==
  /\ pc[c] = "tot_read"
  /\ tmp' = [tmp EXCEPT ![c] = stats.total_requests]
  /\ Goto(c, "tot_write")
  /\ UNCHANGED <<lifeVars, scenVars, stats, request, clientSock, clientOK, upSock,
                 outVars, relayVars, hist>>

\* Line 83, second half.
TotWrite(c) ==
  /\ pc[c] = "tot_write"
  /\ stats' = [stats EXCEPT !.total_requests = tmp[c] + 1]
  /\ hist' = [hist EXCEPT ![c].tots = @ + 1]
  /\ Goto(c, "parse")
  /\ UNCHANGED <<lifeVars, scenVars, tmp, request, clientSock, clientOK, upSock,
                 outVars, relayVars>>

\* first_line.split(' ')
parts(req) == split(first_line(req), "SP")

\* Line 86: first_line.split(' ')[1]; IndexError when there is no second piece.
url(req) == parts(req)[2]

\* Line 88: first_line.startswith('CONNECT')
IsTunnel(req) == startswith(first_line(req), "CONNECT")

\* Lines 85-91: take the target token and choose the path.
Parse(c) ==
  /\ pc[c] = "parse"
  /\ Goto(c, IF Len(parts(request[c])) < 2 THEN Except
             ELSE IF IsTunnel(request[c]) THEN "https" ELSE "http")
  /\ UNCHANGED <<lifeVars, scenVars, stats, tmp, request, clientSock, clientOK,
                 upSock, outVars, relayVars, hist>>

\* Line 95, first half: load stats['errors'].
ErrRead(c) ==
  /\ pc[c] = "err_read"
  /\ tmp' = [tmp EXCEPT ![c] = stats.errors]
  /\ Goto(c, "err_write")
  /\ UNCHANGED <<lifeVars, scenVars, stats, request, clientSock, clientOK, upSock,
                 outVars, relayVars, hist>>

\* Line 95, second half; the except clause then falls into the finally clause.
ErrWrite(c) ==
  /\ pc[c] = "err_write"
  /\ stats' = [stats EXCEPT !.errors = tmp[c] + 1]
  /\ hist' = [hist EXCEPT ![c].errs = @ + 1]
  /\ Goto(c, Finally("except"))
  /\ UNCHANGED <<lifeVars, scenVars, tmp, request, clientSock, clientOK, upSock,
                 outVars, relayVars>>

\* Lines 97-100: client_socket.close()
Close(c) ==
  /\ pc[c] = "close"
  /\ clientSock' = [clientSock EXCEPT ![c] = "closed"]
  /\ Goto(c, "dec_read")
  /\ UNCHANGED <<lifeVars, scenVars, stats, tmp, request, clientOK, upSock,
                 outVars, relayVars, hist>>

\* Line 101, first half: load stats['active_connections'].
DecRead(c) ==
  /\ pc[c] = "dec_read"
  /\ tmp' = [tmp EXCEPT ![c] = stats.active_connections]
  /\ Goto(c, "dec_write")
  /\ UNCHANGED <<lifeVars, scenVars, stats, request, clientSock, clientOK, upSock,
                 outVars, relayVars, hist>>

\* Line 101, second half: store the loaded value minus one; the handler ends.
DecWrite(c) ==
  /\ pc[c] = "dec_write"
  /\ stats' = [stats EXCEPT !.active_connections = tmp[c] - 1]
  /\ hist' = [hist EXCEPT ![c].decs = @ + 1]
  /\ Goto(c, "done")
  /\ UNCHANGED <<lifeVars, scenVars, tmp, request, clientSock, clientOK, upSock,
                 outVars, relayVars>>

(***************************************************************************)
(* handle_https, handle_http                                               *)
(***************************************************************************)

\* Line 139: "HTTP/1.1 200 Connection Established\r\n\r\n"
response500 == "R500"
response == "R200"

\* Lines 127, 146: "HTTP/1.1 500 Internal Server Error\r\n\r\n"
error_response502 == "R502"
error_response == "R500"

\* Whether a send on c's client socket can succeed.
ClientSends(c) == IF clientOK[c] THEN BOOLEAN ELSE {FALSE}

\* socket.send(data): how many bytes the socket accepts (the caller ignores
\* the count); 0 stands for send raising.
Accepted(data) == 0..Len(data)

\* Lines 131-137: parse host:port, create the socket, connect once.
HandleHttps(c) ==
  /\ pc[c] = "https"
  /\ IF ~HttpsTarget(url(request[c])).ok
     THEN /\ Goto(c, "https_500")
          /\ UNCHANGED <<upSock, uLen, cLen, hist>>
     ELSE \E ok \in BOOLEAN, u \in 0..dataBound, k \in 0..dataBound :
            /\ hist' = [hist EXCEPT ![c].connects = @ + 1,
                                    ![c].connectResult = IF ok THEN "ok" ELSE "fail"]
            /\ IF ok
               THEN /\ upSock' = [upSock EXCEPT ![c] = "connected"]
                    /\ uLen' = [uLen EXCEPT ![c] = u]
                    /\ cLen' = [cLen EXCEPT ![c] = k]
                    /\ Goto(c, "https_200")
               ELSE /\ upSock' = [upSock EXCEPT ![c] = "created"]
                    /\ u = 0 /\ k = 0
                    /\ UNCHANGED <<uLen, cLen>>
                    /\ Goto(c, "https_500")
  /\ UNCHANGED <<lifeVars, scenVars, stats, tmp, request, clientSock, clientOK,
                 outVars, uPos, cPos, ready>>

\* Lines 139-140: send the 200 line to the client.
HandleHttps200(c) ==
  /\ pc[c] = "https_200"
  /\ \E ok \in ClientSends(c) :
       IF ok
       THEN /\ clientOut' = [clientOut EXCEPT ![c] = Append(@, response)]
            /\ Goto(c, "relay_select")
            /\ UNCHANGED clientOK
       ELSE /\ clientOK' = [clientOK EXCEPT ![c] = FALSE]
            /\ Goto(c, "https_500")
            /\ UNCHANGED clientOut
  /\ UNCHANGED <<lifeVars, scenVars, stats, tmp, request, clientSock, upSock,
                 upOut, relayVars, hist>>

\* Lines 125-128 and 144-147: the except clause of handle_http / handle_https
\* sends the 500 line; when that send raises, the exception leaves the method.
SendError(c) ==
  /\ \E ok \in ClientSends(c) :
       IF ok
       THEN /\ clientOut' = [clientOut EXCEPT ![c] = Append(@, error_response)]
            /\ Goto(c, Finally("handled"))
            /\ UNCHANGED clientOK
       ELSE /\ clientOK' = [clientOK EXCEPT ![c] = FALSE]
            /\ Goto(c, Except)
            /\ UNCHANGED clientOut
  /\ UNCHANGED <<lifeVars, scenVars, stats, tmp, request, clientSock, upSock,
                 upOut, relayVars, hist>>

\* Lines 144-147
HandleHttpsError(c) ==
  /\ pc[c] = "https_500"
  /\ SendError(c)

\* Lines 125-128
HandleHttpError(c) ==
  /\ pc[c] = "http_500"
  /\ SendError(c)

\* Lines 104-120: find the host, create the socket, connect once.
HandleHttp(c) ==
  /\ pc[c] = "http"
  /\ IF ~HttpTarget(request[c], url(request[c])).ok
     THEN /\ Goto(c, "http_500")
          /\ UNCHANGED <<upSock, uLen, cLen, hist>>
     ELSE \E ok \in BOOLEAN, u \in 0..dataBound, k \in 0..dataBound :
            /\ hist' = [hist EXCEPT ![c].connects = @ + 1,
                                    ![c].connectResult = IF ok THEN "ok" ELSE "fail"]
            /\ IF ok
               THEN /\ upSock' = [upSock EXCEPT ![c] = "connected"]
                    /\ uLen' = [uLen EXCEPT ![c] = u]
                    /\ cLen' = [cLen EXCEPT ![c] = k]
                    /\ Goto(c, "http_send")
               ELSE /\ upSock' = [upSock EXCEPT ![c] = "created"]
                    /\ u = 0 /\ k = 0
                    /\ UNCHANGED <<uLen, cLen>>
                    /\ Goto(c, "http_500")
  /\ UNCHANGED <<lifeVars, scenVars, stats, tmp, request, clientSock, clientOK,
                 outVars, uPos, cPos, ready>>

\* Line 121: server_socket.send(request.encode('utf-8'))
HandleHttpSend(c) ==
  /\ pc[c] = "http_send"
  /\ \E n \in Accepted(encode(request[c])) :
       IF n = 0
       THEN /\ Goto(c, "http_500")
            /\ UNCHANGED <<upOut, hist>>
       ELSE /\ upOut' = [upOut EXCEPT ![c] = @ \o SubSeq(encode(request[c]), 1, n)]
            /\ hist' = [hist EXCEPT ![c].fwd = SubSeq(encode(request[c]), 1, n),
                                    ![c].fwdDone = TRUE,
                                    ![c].fwdWhole = (n = Len(encode(request[c])))]
            /\ Goto(c, "relay_select")
  /\ UNCHANGED <<lifeVars, scenVars, stats, tmp, request, clientSock, clientOK,
                 upSock, clientOut, relayVars>>

(***************************************************************************)
(* relay_data                                                              *)
(***************************************************************************)

\* What select() can return as ready_sockets: a sublist of
\* [client_socket, server_socket], in that order.
ReadyLists == {<<"client">>, <<"server">>, <<"client", "server">>}

\* Lines 161-164: data read from one socket is sent on the other.
OtherSockSame(sock) == "server"
OtherSock(sock) == IF sock = "client" THEN "server" ELSE "client"

\* The bytes of sock's peer that the relay has not read yet.
Unread(c, sock) ==
  IF sock = "client" THEN SubSeq(ClBytes(cLen[c]), cPos[c] + 1, cLen[c])
  ELSE SubSeq(UpBytes(uLen[c]), uPos[c] + 1, uLen[c])

\* Lines 155, 160, 166: break and return leave the while loop for the
\* finally clause of relay_data.
LoopExitContinue == "relay_select"
LoopExit == "relay_finally"

\* Lines 153-155: select() with a 1 s timeout; an exceptional socket ends
\* the loop, a timeout with nothing ready polls again.
RelaySelect(c) ==
  /\ pc[c] = "relay_select"
  /\ \E err \in BOOLEAN, rs \in ReadyLists :
       IF err
       THEN /\ rs = <<"client">>
            /\ hist' = [hist EXCEPT ![c].relayEnd = "select_error"]
            /\ Goto(c, LoopExit)
            /\ UNCHANGED ready
       ELSE /\ ready' = [ready EXCEPT ![c] = rs]
            /\ Goto(c, "relay_recv")
            /\ UNCHANGED hist
  /\ UNCHANGED <<lifeVars, scenVars, stats, tmp, request, clientSock, clientOK,
                 upSock, outVars, uLen, cLen, uPos, cPos>>

\* Lines 156-166: one pass of the for loop: recv on the next ready socket;
\* no data or an exception returns, data is sent on the other socket with
\* socket.send, whose count of accepted bytes is not looked at.
RelayRecv(c) ==
  /\ pc[c] = "relay_recv"
  /\ LET sock == Head(ready[c])
         rest == Unread(c, sock)
         to   == OtherSock(sock)
     IN \E raise \in BOOLEAN, k \in 0..Min(buffer_size, Len(rest)), n \in 0..buffer_size :
          /\ n <= k
          /\ IF raise
             THEN /\ k = 0
                  /\ hist' = [hist EXCEPT ![c].relayEnd = "recv_error"]
                  /\ Goto(c, LoopExit)
                  /\ UNCHANGED <<outVars, clientOK, uPos, cPos, ready>>
             ELSE IF rest = <<>>
             THEN /\ hist' = [hist EXCEPT ![c].relayEnd = IF sock = "client" THEN "client_eof"
                                                    ELSE "server_eof"]
                  /\ Goto(c, LoopExit)
                  /\ UNCHANGED <<outVars, clientOK, uPos, cPos, ready>>
             ELSE /\ k >= 1
                  /\ (to = "client" /\ ~clientOK[c]) => n = 0
                  /\ uPos' = IF sock = "server" THEN [uPos EXCEPT ![c] = @ + k] ELSE uPos
                  /\ cPos' = IF sock = "client" THEN [cPos EXCEPT ![c] = @ + k] ELSE cPos
                  /\ clientOut' = IF to = "client"
                                  THEN [clientOut EXCEPT ![c] = @ \o SubSeq(rest, 1, n)]
                                  ELSE clientOut
                  /\ upOut' = IF to = "server"
                              THEN [upOut EXCEPT ![c] = @ \o SubSeq(rest, 1, n)]
                              ELSE upOut
                  /\ clientOK' = IF to = "client" /\ n = 0
                                 THEN [clientOK EXCEPT ![c] = FALSE] ELSE clientOK
                  /\ hist' = [hist EXCEPT
                       ![c].relayEnd = IF n = 0 THEN "send_error" ELSE @,
                       ![c].offered = IF to = "client" THEN @ \o SubSeq(rest, 1, k) ELSE @,
                       ![c].short = @ \/ (to = "client" /\ 0 < n /\ n < k)]
                  /\ IF n = 0
                     THEN /\ Goto(c, LoopExit)
                          /\ UNCHANGED ready
                     ELSE /\ ready' = [ready EXCEPT ![c] = Tail(@)]
                          /\ Goto(c, IF Tail(ready[c]) = <<>> THEN "relay_select"
                                     ELSE "relay_recv")
  /\ UNCHANGED <<lifeVars, scenVars, stats, tmp, request, clientSock, upSock,
                 uLen, cLen>>

\* Lines 165-173: relay_data catches every exception of its loop, so it
\* always returns normally to handle_http / handle_https, which return too.
RelayRaises == "https_500"
RelayReturns == Finally("relayed")

\* Lines 169-173: server_socket.close(); relay_data returns, and so does
\* handle_http / handle_https.
RelayFinally(c) ==
  /\ pc[c] = "relay_finally"
  /\ upSock' = [upSock EXCEPT ![c] = "closed"]
  /\ ready' = [ready EXCEPT ![c] = <<>>]
  /\ Goto(c, RelayReturns)
  /\ UNCHANGED <<lifeVars, scenVars, stats, tmp, request, clientSock, clientOK,
                 outVars, uLen, cLen, uPos, cPos, hist>>

(***************************************************************************)
(* Specifications.                                                         *)
(***************************************************************************)

Next ==
  \/ Start
  \/ LoopCheck
  \/ AcceptError
  \/ Submit
  \/ StopFlag
  \/ StopClose
  \/ StopShutdown
  \/ StopJoin
  \/ \E c \in Conns :
       \/ Accept(c)
       \/ StartHandler(c)
       \/ IncRead(c)
       \/ IncWrite(c)
       \/ Recv(c)
       \/ TotRead(c)
       \/ TotWrite(c)
       \/ Parse(c)
       \/ ErrRead(c)
       \/ ErrWrite(c)
       \/ Close(c)
       \/ DecRead(c)
       \/ DecWrite(c)
       \/ HandleHttps(c)
       \/ HandleHttps200(c)
       \/ HandleHttpsError(c)
       \/ HandleHttp(c)
       \/ HandleHttpSend(c)
       \/ HandleHttpError(c)
       \/ RelaySelect(c)
       \/ RelayRecv(c)
       \/ RelayFinally(c)

\* The steps of a server on which stop() is not called.
Serve ==
  \/ Start
  \/ LoopCheck
  \/ Submit
  \/ \E c \in Conns :
       \/ Accept(c)
       \/ StartHandler(c)
       \/ IncRead(c)
       \/ IncWrite(c)
       \/ Recv(c)
       \/ TotRead(c)
       \/ TotWrite(c)
       \/ Parse(c)
       \/ ErrRead(c)
       \/ ErrWrite(c)
       \/ Close(c)
       \/ DecRead(c)
       \/ DecWrite(c)
       \/ HandleHttps(c)
       \/ HandleHttps200(c)
       \/ HandleHttpsError(c)
       \/ HandleHttp(c)
       \/ HandleHttpSend(c)
       \/ HandleHttpError(c)
       \/ RelaySelect(c)
       \/ RelayRecv(c)
       \/ RelayFinally(c)

\* One connection in full detail, on a server that keeps running.
Spec == Init /\ [][Serve]_vars

\* One connection that reaches the relay, with streams up to RelayData bytes.
InitRelay == InitWith(1, RelayReads, RelayData)
SpecRelay == InitRelay /\ [][Serve]_vars

\* One connection, with stop() called from another thread at any moment.
InitStop == InitWith(1, FirstReads, StopData)
SpecStop == InitStop /\ [][Next]_vars

\* The steps that can be taken when every first read is one of ConcReads: no
\* handler reaches handle_http, handle_https or relay_data.
NextConc ==
  \/ Start
  \/ LoopCheck
  \/ AcceptError
  \/ Submit
  \/ StopFlag
  \/ StopClose
  \/ StopShutdown
  \/ StopJoin
  \/ \E c \in Conns :
       \/ Accept(c)
       \/ StartHandler(c)
       \/ IncRead(c)
       \/ IncWrite(c)
       \/ Recv(c)
       \/ TotRead(c)
       \/ TotWrite(c)
       \/ Parse(c)
       \/ ErrRead(c)
       \/ ErrWrite(c)
       \/ Close(c)
       \/ DecRead(c)
       \/ DecWrite(c)

\* MaxConns connections handled by up to max_workers threads at once.
SpecConc == InitConc /\ [][NextConc]_vars

(***************************************************************************)
(* Properties.                                                             *)
(***************************************************************************)

\* The bytes of c's first read.
raw(c) == rd[c].bytes

\* The space-delimited tokens of the first line of c's first read.
rawParts(c) == split(first_line(raw(c)), "SP")

\* c has been accepted and its client socket is not closed yet.
Open(c) == clientSock[c] = "open"

\* c's handler is at its += 1 or -= 1 on the active-connection counter.
InFlight(c) == pc[c] \in {"inc_read", "inc_write", "dec_read", "dec_write"}

\* C1: whenever no handler is in the middle of changing the counter,
\* stats['active_connections'] is the number of connections between accept
\* and close, connections still queued in the pool included.
ActiveEqualsOpen ==
  (\A c \in Conns : ~InFlight(c))
    => stats.active_connections = Cardinality({c \in Conns : Open(c)})

\* C1, counting only the handlers a worker has started: whenever no handler
\* is at its += 1 or -= 1, the counter is the number of running handlers that
\* have not closed their socket. (Violated too, by a lost update.)
ActiveEqualsStarted ==
  (\A c \in Conns : ~InFlight(c))
    => stats.active_connections = Cardinality({c \in Busy : Open(c)})

\* C2: stats['active_connections'] is never negative.
ActiveNonNegative == stats.active_connections >= 0

\* C3: a handler that has ended, by whatever path, has closed its client
\* socket and has decremented the active-connection counter exactly once
\* (with one connection the counter is back at 0); no handler decrements
\* before it ends.
ExitClosesAndDecrements ==
  \A c \in Conns :
    /\ hist[c].decs = (IF pc[c] = "done" THEN 1 ELSE 0)
    /\ pc[c] = "done" => clientSock[c] = "closed" /\ stats.active_connections = 0

\* C3 witness: the handler has ended after the 500 line could not be written
\* and the exception left handle_https.
ExitAfterFailed500 ==
  \E c \in Conns :
    /\ pc[c] = "done"
    /\ IsTunnel(request[c])
    /\ hist[c].connectResult = "fail"
    /\ ~clientOK[c]
    /\ hist[c].errs = 1

\* C4: after a failed upstream connect nothing but the 500 line is written
\* to the client, a writable client has received exactly that line when its
\* socket is closed, the handler closes the socket, and connect was called
\* once.
ConnectFailureGets500 ==
  \A c \in Conns :
    /\ hist[c].connects <= 1
    /\ hist[c].connectResult = "fail" =>
         /\ hist[c].connects = 1
         /\ upOut[c] = <<>>
         /\ clientOut[c] \in {<<>>, <<"R500">>}
         /\ clientSock[c] = "closed" /\ clientOK[c] => clientOut[c] = <<"R500">>
         /\ pc[c] = "done" => clientSock[c] = "closed"

\* C4 witness: a forwarded request whose connect failed, answered and closed.
ForwardFailureAnswered ==
  \E c \in Conns :
    /\ pc[c] = "done"
    /\ ~IsTunnel(request[c])
    /\ hist[c].connectResult = "fail"
    /\ clientOut[c] = <<"R500">>
    /\ clientSock[c] = "closed"

\* C5: a handler whose upstream connect failed has incremented the error
\* counter exactly once when it ends.
ConnectFailureCountsError ==
  \A c \in Conns :
    pc[c] = "done" /\ hist[c].connectResult = "fail"
      => hist[c].errs = 1 /\ stats.errors = 1

\* C6: a handler whose first read was not empty and had no target token on
\* its first line ends having written nothing to the client, opened no
\* upstream socket, incremented the error counter exactly once and closed
\* the client socket.
NoTargetCountsError ==
  \A c \in Conns :
    pc[c] = "done" /\ ~rd[c].err /\ raw(c) # <<>> /\ Len(rawParts(c)) < 2
      => /\ clientOut[c] = <<>>
         /\ upSock[c] = "none"
         /\ hist[c].errs = 1 /\ stats.errors = 1
         /\ clientSock[c] = "closed"

\* A request other than CONNECT with a target that is not absolute and
\* without a Host header line.
ForwardWithoutHost(c) ==
  /\ Len(rawParts(c)) >= 2
  /\ rawParts(c)[1] # <<"CONNECT">>
  /\ ~startswith(rawParts(c)[2], "HTTP")
  /\ host_line(raw(c)) = <<>>

\* A CONNECT request whose target is not host:port with an integer port.
TunnelWithBadTarget(c) ==
  /\ Len(rawParts(c)) >= 2
  /\ rawParts(c)[1] = <<"CONNECT">>
  /\ ~HttpsTarget(rawParts(c)[2]).ok

\* C7: a handler whose request lacks a Host header (forward path) or has a
\* malformed CONNECT target ends having incremented the error counter once
\* and having written nothing to the client.
ParseErrorsSilent ==
  \A c \in Conns :
    pc[c] = "done" /\ ~rd[c].err /\ (ForwardWithoutHost(c) \/ TunnelWithBadTarget(c))
      => hist[c].errs = 1 /\ stats.errors = 1 /\ clientOut[c] = <<>>

\* A CONNECT request with a well-formed target.
TunnelRequest(c) ==
  /\ ~rd[c].err
  /\ Len(rawParts(c)) >= 2
  /\ rawParts(c)[1] = <<"CONNECT">>
  /\ HttpsTarget(rawParts(c)[2]).ok

\* C8: for a CONNECT request the 200 line is written only after connect
\* succeeded, it is the first thing the client gets and is written once, and
\* the relay reads and writes nothing before the client has it.
TunnelReplyFirst ==
  \A c \in Conns : TunnelRequest(c) =>
    /\ "R200" \in Range(clientOut[c]) => hist[c].connectResult = "ok"
    /\ hist[c].connectResult = "ok" /\ clientOut[c] # <<>> =>
         /\ clientOut[c][1] = "R200"
         /\ \A i \in 2..Len(clientOut[c]) : clientOut[c][i] \in Range(UpData)
    /\ (upOut[c] # <<>> \/ uPos[c] > 0 \/ cPos[c] > 0
          \/ pc[c] \in {"relay_select", "relay_recv", "relay_finally"})
         => clientOut[c] # <<>> /\ clientOut[c][1] = "R200"

\* C8 witness: a tunnel that has carried bytes both ways after the 200 line.
TunnelCarriedBytes ==
  \E c \in Conns :
    /\ TunnelRequest(c)
    /\ Len(clientOut[c]) >= 2
    /\ clientOut[c][1] = "R200"
    /\ clientOut[c][2] = "u1"
    /\ upOut[c] # <<>>

\* C9: the bytes handle_http wrote to the upstream before the relay are the
\* bytes of the first read (whenever the upstream's send accepted all it was
\* given).
ForwardedVerbatim ==
  \A c \in Conns : hist[c].fwdDone /\ hist[c].fwdWhole => hist[c].fwd = raw(c)

\* A GET request with an absolute http:// target and no invalid byte.
WellFormedGet(c) ==
  /\ ~rd[c].err
  /\ Len(rawParts(c)) >= 2
  /\ rawParts(c)[1] = <<"GET">>
  /\ startswith(rawParts(c)[2], "HTTP")
  /\ "BAD" \notin Range(raw(c))

IsPrefix(a, b) == Len(a) <= Len(b) /\ a = SubSeq(b, 1, Len(a))

\* The bytes the relay has written to c's client / upstream socket.
RelayedToClient(c) == SelectSeq(clientOut[c], LAMBDA t : t \in Range(UpData))
RelayedToUpstream(c) == SelectSeq(upOut[c], LAMBDA t : t \in Range(ClData))

\* C11: in each direction the bytes the relay has written to one socket are
\* a prefix of the bytes it has read from the other.
RelayWritesPrefix ==
  \A c \in Conns :
    /\ IsPrefix(RelayedToClient(c), UpBytes(uPos[c]))
    /\ IsPrefix(RelayedToUpstream(c), ClBytes(cPos[c]))

\* The relay loop of c is still running.
InRelayLoop(c) == pc[c] \in {"relay_select", "relay_recv"}

\* C12: once the relay has seen a peer close or fail (end of stream, an
\* exception of recv or send, an exceptional socket in select) the loop is
\* over, and a handler that relayed and has finished has closed both the
\* upstream and the client socket.
RelayEndsAndCloses ==
  \A c \in Conns :
    /\ hist[c].relayEnd # "none" => ~InRelayLoop(c)
    /\ (pc[c] = "done" /\ hist[c].relayEnd # "none")
         => upSock[c] = "closed" /\ clientSock[c] = "closed"

\* The upstream closed first, and the handler has finished.
RelayEndedByUpstream ==
  \E c \in Conns :
    /\ pc[c] = "done"
    /\ hist[c].relayEnd = "server_eof"
    /\ upSock[c] = "closed"
    /\ clientSock[c] = "closed"

\* C13: stop() has returned only if no handler is queued or running, and no
\* step of stop() changes the state of a client or upstream socket.
StopWaitsForHandlers ==
  /\ [](stoppc = "stopped" => \A c \in Conns : pc[c] \in {"none", "done"})
  /\ [][stoppc' # stoppc => (clientSock' = clientSock /\ upSock' = upSock)]_vars

\* stop() is waiting in executor.shutdown while a relay is running with both
\* of its sockets open.
StopWaitsOnRelay ==
  \E c \in Conns :
    /\ stoppc = "join"
    /\ InRelayLoop(c)
    /\ clientSock[c] = "open"
    /\ upSock[c] = "connected"

\* The connections whose handler has finished after a first read that
\* returned at least one byte.
ReadSomething == {c \in Conns : pc[c] = "done" /\ ~rd[c].err /\ rd[c].bytes # <<>>}

\* C14: no step lowers the stored total_requests or errors, and once the
\* handlers of all connections have finished total_requests is the number of
\* connections whose first read returned at least one byte.
CountersOnlyGrow ==
  /\ [][/\ stats'.total_requests >= stats.total_requests
        /\ stats'.errors >= stats.errors]_vars
  /\ []((\A c \in 1..nconns : pc[c] = "done")
          => stats.total_requests = Cardinality(ReadSomething))

\* The method token of the request c's handler has decoded.
method(c) == parts(request[c])[1]

\* c's handler is in handle_https / in handle_http, before the relay.
OnTunnelPath(c) == pc[c] \in {"https", "https_200", "https_500"}
OnForwardPath(c) == pc[c] \in {"http", "http_send", "http_500"}

\* C15: a request is handled by handle_https exactly when its method token
\* is CONNECT; every other method, one that only begins with CONNECT
\* included, is handled by handle_http.
RoutedByMethod ==
  \A c \in Conns :
    /\ OnTunnelPath(c) => method(c) = <<"CONNECT">>
    /\ OnForwardPath(c) => method(c) # <<"CONNECT">>

\* C16: a first read of zero bytes changes neither total_requests nor
\* errors, writes nothing to the client and opens no upstream socket, and the
\* handler ends with the client socket closed; a first read that raises adds
\* exactly one to errors and leaves total_requests alone.
EmptyOrFailedFirstRead ==
  \A c \in 1..nconns :
    /\ (~rd[c].err /\ raw(c) = <<>>)
         => /\ stats.total_requests = 0 /\ hist[c].tots = 0
            /\ stats.errors = 0 /\ hist[c].errs = 0
            /\ clientOut[c] = <<>> /\ upOut[c] = <<>>
            /\ upSock[c] = "none" /\ hist[c].connects = 0
            /\ pc[c] = "done" => clientSock[c] = "closed"
    /\ rd[c].err
         => /\ stats.total_requests = 0 /\ hist[c].tots = 0
            /\ clientOut[c] = <<>> /\ upSock[c] = "none"
            /\ stats.errors = hist[c].errs
            /\ stats.errors = IF pc[c] \in {"close", "dec_read", "dec_write", "done"}
                              THEN 1 ELSE 0

\* A handler whose first read raised has finished, with one error counted.
FailedFirstReadDone ==
  \E c \in Conns :
    /\ rd[c].err
    /\ pc[c] = "done"
    /\ stats.errors = 1
    /\ stats.total_requests = 0

\* C17: once stop() has cleared the running flag no step sets it again, and
\* the flag is cleared only by a step of stop().
RunningNeverSetAgain ==
  [][/\ (stoppc # "idle" /\ ~running) => ~running'
     /\ (running /\ ~running') => stoppc' # stoppc]_vars

\* The accept loop holds c's socket between accept() and submit().
BeingSubmitted(c) == mainpc = "submit" /\ cur = c

\* C18: every connection accept() has returned is handed to the pool: once
\* the accept loop has gone past its submit the connection has a handler
\* that is queued, running or finished, and a finished handler has closed
\* the client socket; this for every interleaving with stop().
AcceptedIsSubmitted ==
  \A c \in Conns :
    /\ (clientSock[c] # "none" /\ ~BeingSubmitted(c)) => pc[c] # "none"
    /\ pc[c] = "done" => clientSock[c] = "closed"

\* C19: when a handler has finished, the upstream socket it created, if
\* any, is closed, whichever way the handler ended.
UpstreamClosedAtExit ==
  \A c \in Conns : pc[c] = "done" => upSock[c] \in {"none", "closed"}

\* The positions of c's client output that hold a response line written by
\* the proxy itself.
OwnResponses(c) ==
  {i \in DOMAIN clientOut[c] : clientOut[c][i] \in {"R200", "R500"}}

\* relay_data has been entered for c.
RelayStarted(c) ==
  InRelayLoop(c) \/ pc[c] = "relay_finally" \/ hist[c].relayEnd # "none"

\* C20: a client is sent at most one response line by the proxy itself,
\* the 200 or the 500 and never both, and the 500 is never written once the
\* relay has started, whatever ends the relay.
AtMostOneOwnResponse ==
  \A c \in Conns :
    /\ Cardinality(OwnResponses(c)) <= 1
    /\ RelayStarted(c) => "R500" \notin Range(clientOut[c])

\* A tunnel whose relay ended with an error has finished: the client got the
\* 200 line and no 500 line.
RelayErrorAfter200 ==
  \E c \in Conns :
    /\ pc[c] = "done"
    /\ hist[c].relayEnd \in {"select_error", "recv_error", "send_error"}
    /\ clientOut[c] # <<>>
    /\ clientOut[c][1] = "R200"
    /\ "R500" \notin Range(clientOut[c])

====
